---------------------------- MODULE Spec2Model ----------------------------
(***************************************************************************)
(* M-Top: the six category processors of utils/ and the page script        *)
(* m_top.py that calls them.                                               *)
(*                                                                         *)
(* Text is modelled as a sequence of one-character strings, so that        *)
(* substring tests, str.partition, str.title and the pay-bill regex are    *)
(* computed character by character, as pandas/Python compute them.         *)
(*                                                                         *)
(* A date_time is modelled as 10 * day + hour, and every day lies in a    *)
(* month of its own.                                                       *)
(*                                                                         *)
(* Money is modelled in twentieths of a shilling: the integer 30 is the    *)
(* float 1.5.  The amounts of the rows are multiples of 0.25, on which     *)
(* float addition is exact; .astype(int) truncates and round(x, 1) rounds  *)
(* to a tenth, and both are modelled.                                      *)
(* A frame (DataFrame) is the sequence of its rows, a row is a record.     *)
(***************************************************************************)
EXTENDS Integers, Sequences, FiniteSets, TLC

VARIABLES
    filtered_df,      \* the frame handed to the processors
    ret,              \* what the last processor call returned or raised
    quicksort_ties,   \* how this build's argsort(kind="quicksort") leaves equal keys
    statement,        \* the file the upload form of the page holds
    session_state,    \* st.session_state of the browser session
    script,           \* the current run of m_top.py: position and widget values
    df_cleaned,       \* the statement loaded by the current run
    invoked,          \* the processors the current run has called, in order
    rendered          \* the sections the current run has drawn

vars == <<filtered_df, ret, quicksort_ties, statement,
          session_state, script, df_cleaned, invoked, rendered>>

---------------------------------------------------------------------------
(* Bounds of the model *)

MaxRows == 3        \* rows of a ledger
MaxN == 2           \* largest nlargest passed by a direct caller

---------------------------------------------------------------------------
(* Characters and Python's str operations *)

UPPERCASE == <<"A", "B", "C", "D", "E", "F", "G", "H", "I", "J", "K", "L", "M",
               "N", "O", "P", "Q", "R", "S", "T", "U", "V", "W", "X", "Y", "Z">>
LOWERCASE == <<"a", "b", "c", "d", "e", "f", "g", "h", "i", "j", "k", "l", "m",
               "n", "o", "p", "q", "r", "s", "t", "u", "v", "w", "x", "y", "z">>
DIGITS == <<"0", "1", "2", "3", "4", "5", "6", "7", "8", "9">>

\* The characters of the model in code point order (str comparison order).
CODEPOINTS == <<" ", "*", ",", ".">> \o DIGITS \o UPPERCASE \o LOWERCASE

Ord(c) == CHOOSE i \in 1..Len(CODEPOINTS) : CODEPOINTS[i] = c

IsUpperChar(c) == \E i \in 1..Len(UPPERCASE) : UPPERCASE[i] = c
IsLowerChar(c) == \E i \in 1..Len(LOWERCASE) : LOWERCASE[i] = c
IsCased(c) == IsUpperChar(c) \/ IsLowerChar(c)

upper(c) == IF IsLowerChar(c)
            THEN UPPERCASE[CHOOSE i \in 1..Len(LOWERCASE) : LOWERCASE[i] = c]
            ELSE c
lower(c) == IF IsUpperChar(c)
            THEN LOWERCASE[CHOOSE i \in 1..Len(UPPERCASE) : UPPERCASE[i] = c]
            ELSE c

\* str.title(): a cased character is upper-cased when it follows an uncased
\* character (or starts the string) and lower-cased otherwise.
title(s) == [i \in 1..Len(s) |->
                IF i = 1 \/ ~IsCased(s[i - 1]) THEN upper(s[i]) ELSE lower(s[i])]

\* Series.str.contains(pat) for a pattern without metacharacters: substring.
str_contains(s, pat) ==
    \E i \in 0..(Len(s) - Len(pat)) : SubSeq(s, i + 1, i + Len(pat)) = pat

\* str.endswith(suffix)
endswith(s, suffix) ==
    /\ Len(suffix) <= Len(s)
    /\ SubSeq(s, Len(s) - Len(suffix) + 1, Len(s)) = suffix

\* Series.str.partition(" ")[2]: what follows the first space, "" without one.
partition_2(s) ==
    IF \E i \in 1..Len(s) : s[i] = " "
    THEN LET i == CHOOSE k \in 1..Len(s) :
                     s[k] = " " /\ \A j \in 1..(k - 1) : s[j] # " "
         IN SubSeq(s, i + 1, Len(s))
    ELSE <<>>

\* Python's < on str: lexicographic by code point.
RECURSIVE StrLess(_, _)
StrLess(a, b) ==
    IF b = <<>> THEN FALSE
    ELSE IF a = <<>> THEN TRUE
    ELSE IF Head(a) = Head(b) THEN StrLess(Tail(a), Tail(b))
    ELSE Ord(Head(a)) < Ord(Head(b))

\* ", ".join(parts)
RECURSIVE join(_)
join(parts) ==
    IF parts = <<>> THEN <<>>
    ELSE IF Len(parts) = 1 THEN Head(parts)
    ELSE Head(parts) \o <<",", " ">> \o join(Tail(parts))

---------------------------------------------------------------------------
(* String literals of the source *)

MERCHANT_PAYMENT == <<"M", "e", "r", "c", "h", "a", "n", "t", " ", "P", "a", "y", "m", "e", "n", "t">>
PAY_MERCHANT == <<"P", "a", "y", " ", "M", "e", "r", "c", "h", "a", "n", "t">>
PAY_BILL == <<"P", "a", "y", " ", "B", "i", "l", "l">>
CHARGE == <<"C", "h", "a", "r", "g", "e">>
ACC == <<"A", "c", "c", ".">>
NAN == <<"n", "a", "n">>
CUSTOMER_TRANSFER == <<"C", "u", "s", "t", "o", "m", "e", "r", " ", "T", "r", "a", "n", "s", "f", "e", "r">>
OF_FUNDS_CHARGE == <<"o", "f", " ", "F", "u", "n", "d", "s", " ", "C", "h", "a", "r", "g", "e">>
FUNDS_RECEIVED == <<"F", "u", "n", "d", "s", " ", "r", "e", "c", "e", "i", "v", "e", "d">>
BUSINESS == <<"B", "u", "s", "i", "n", "e", "s", "s">>
FROM == <<"f", "r", "o", "m">>
INDIVIDUAL == <<"I", "n", "d", "i", "v", "i", "d", "u", "a", "l">>
CUSTOMER_WITHDRAWAL == <<"C", "u", "s", "t", "o", "m", "e", "r", " ", "W", "i", "t", "h", "d", "r", "a", "w", "a", "l">>
CASH_WITHDRAWAL == <<"C", "a", "s", "h", " ", "W", "i", "t", "h", "d", "r", "a", "w", "a", "l">>
AIRTIME == <<"A", "i", "r", "t", "i", "m", "e">>

---------------------------------------------------------------------------
(* pandas operations on frames *)

\* frame[col].sum()
RECURSIVE ColSum(_, _)
ColSum(frame, col) ==
    IF frame = <<>> THEN 0 ELSE Head(frame)[col] + ColSum(Tail(frame), col)

\* frame[col] as a sequence
Col(frame, col) == [i \in 1..Len(frame) |-> frame[i][col]]

\* A conversion that rounds to the nearest shilling instead of truncating.
astype_int_rounding(x) == ((x + 10) \div 20) * 20

\* x.astype(int): truncation of a non-negative float to whole shillings.
astype_int(x) == (x \div 20) * 20

\* round(x, ndigits) of a float that is a multiple of 0.25, for ndigits >= 1.
\* Such a float has two decimals and is held exactly, so two digits or more
\* return it, and one digit rounds it to a tenth, a float ending in 5 going to
\* the even tenth (0.25 to 0.2, 0.75 to 0.8).
round(x, ndigits) ==
    IF ndigits >= 2 \/ x % 2 = 0
    THEN x
    ELSE LET tenths == x \div 2
         IN (IF tenths % 2 = 0 THEN tenths ELSE tenths + 1) * 2

\* Group keys are tuples of strings, one per grouping column; they compare
\* column by column.
RECURSIVE TupleLess(_, _)
TupleLess(a, b) ==
    IF a = <<>> \/ b = <<>> THEN FALSE
    ELSE \/ StrLess(Head(a), Head(b))
         \/ Head(a) = Head(b) /\ TupleLess(Tail(a), Tail(b))

\* groupby(..., sort=True): the distinct group keys in ascending order.
RECURSIVE SortedKeys(_)
SortedKeys(S) ==
    IF S = {} THEN <<>>
    ELSE LET m == CHOOSE x \in S : \A y \in S \ {x} : TupleLess(x, y)
         IN <<m>> \o SortedKeys(S \ {m})

\* The keys of a groupby on a single column
SortedValues(S) ==
    LET keys == SortedKeys({<<x>> : x \in S})
    IN [k \in 1..Len(keys) |-> keys[k][1]]

\* Stable insertion of a row into a frame ascending in column "sum".
RECURSIVE InsertAscending(_, _)
InsertAscending(row, sorted) ==
    IF sorted = <<>> THEN <<row>>
    ELSE IF row["sum"] < Head(sorted)["sum"] THEN <<row>> \o sorted
    ELSE <<Head(sorted)>> \o InsertAscending(row, Tail(sorted))

RECURSIVE StableAscending(_)
StableAscending(frame) ==
    IF frame = <<>> THEN <<>>
    ELSE InsertAscending(frame[Len(frame)],
                         StableAscending(SubSeq(frame, 1, Len(frame) - 1)))

Reverse(s) == [i \in 1..Len(s) |-> s[Len(s) + 1 - i]]

\* ndarray.argsort(kind="quicksort") applied to the rows: ascending in "sum";
\* the order it leaves equal keys in is not specified and depends on the build.
argsort_quicksort(frame) ==
    IF quicksort_ties = "keep" THEN StableAscending(frame)
    ELSE StableAscending(Reverse(frame))

\* ndarray.argsort(kind="mergesort"): stable.
argsort_mergesort(frame) == StableAscending(frame)

\* DataFrame.sort_values(by="sum", ascending=...) with the default kind;
\* descending order reverses, sorts ascending and reverses again (nargsort).
sort_values(frame, ascending) ==
    IF ascending THEN argsort_quicksort(frame)
    ELSE Reverse(argsort_quicksort(Reverse(frame)))

\* DataFrame.head(n)
head(frame, n) == SubSeq(frame, 1, IF n < Len(frame) THEN n ELSE Len(frame))

\* DataFrame.nlargest(n, "sum"), keep="first"
nlargest_sum(frame, n) ==
    IF n >= Len(frame) THEN head(sort_values(frame, FALSE), n)
    ELSE head(Reverse(argsort_mergesort(Reverse(frame))), n)


\* A grouping whose count column is nunique: the distinct amounts of a group.
groupby_entity_nunique(frame, col) ==
    LET keys == SortedValues({frame[i].entity : i \in 1..Len(frame)})
    IN [k \in 1..Len(keys) |->
           LET group == SelectSeq(frame, LAMBDA r : r.entity = keys[k])
           IN [entity |-> keys[k],
               count |-> Cardinality({group[i][col] : i \in 1..Len(group)}),
               sum |-> ColSum(group, col)]]

\* A grouping with sort=False: one row per entity, in order of first appearance.
groupby_entity_unsorted(frame, col) ==
    LET first == SelectSeq([i \in 1..Len(frame) |-> [at |-> i, entity |-> frame[i].entity]],
                        LAMBDA x : \A j \in 1..(x.at - 1) : frame[j].entity # x.entity)
    IN [k \in 1..Len(first) |->
           LET group == SelectSeq(frame, LAMBDA r : r.entity = first[k].entity)
           IN [entity |-> first[k].entity,
               count |-> Len(group),
               sum |-> ColSum(group, col)]]

\* groupby("entity").agg(count=(col, "count"), sum=(col, "sum")).reset_index():
\* one row per distinct entity, in ascending order of the entity.
groupby_entity(frame, col) ==
    LET keys == SortedValues({frame[i].entity : i \in 1..Len(frame)})
    IN [k \in 1..Len(keys) |->
           LET group == SelectSeq(frame, LAMBDA r : r.entity = keys[k])
           IN [entity |-> keys[k],
               count |-> Len(group),
               sum |-> ColSum(group, col)]]

\* update_layout(height=((nlargest - 1) * 100)): the height the processors
\* with a bar chart ask for.
chart_height(nlargest) == (nlargest - 1) * 100

\* The chart library takes a layout height of 10 or more and raises
\* ValueError on any other.
height_accepted(height) == height >= 10

---------------------------------------------------------------------------
(* utils/merchantpayments.py *)

merchant_box(df, nlargest) ==
    LET merchantFrame ==
            sort_values(
                groupby_entity(
                    SelectSeq(df, LAMBDA r : str_contains(r.type_class, MERCHANT_PAYMENT)),
                    "withdrawn"),
                FALSE)
        topMerchant_fig == sort_values(head(merchantFrame, nlargest), TRUE)
        totalspend == ColSum(merchantFrame, "sum")
        totalcharges ==
            round(ColSum(SelectSeq(df, LAMBDA r : str_contains(r.type_class, PAY_MERCHANT)),
                         "withdrawn"), 2)
        merchantCount == ColSum(merchantFrame, "count")
    IN IF ~height_accepted(chart_height(nlargest))
       THEN [raised |-> "ValueError"]
       ELSE [raised |-> "no",
             topMerchant_fig |-> topMerchant_fig,
             totalspend |-> totalspend,
             totalcharges |-> totalcharges,
             merchantCount |-> merchantCount,
             merchantFrame |-> merchantFrame]

---------------------------------------------------------------------------
(* utils/paybill.py *)

\* The number of consecutive spaces of s from position from on (regex \s+).
RECURSIVE SpaceRun(_, _)
SpaceRun(s, from) ==
    IF from <= Len(s) /\ s[from] = " " THEN 1 + SpaceRun(s, from + 1) ELSE 0

\* Whether (?:\s+Acc\.\s+(.*)) matches s right after its first k characters.
AccSegmentAt(s, k) ==
    LET m == SpaceRun(s, k + 1)
    IN /\ m >= 1
       /\ k + m + Len(ACC) <= Len(s)
       /\ SubSeq(s, k + m + 1, k + m + Len(ACC)) = ACC
       /\ SpaceRun(s, k + m + Len(ACC) + 1) >= 1

\* Series.str.extract(r"(.*?)(?:\s+Acc\.\s+(.*)|$)"): the lazy first group ends
\* at the first account segment, or at the end of the string when there is
\* none; the second group is then missing (NaN).
str_extract(s) ==
    LET k == CHOOSE i \in 0..Len(s) :
                 /\ AccSegmentAt(s, i) \/ i = Len(s)
                 /\ \A j \in 0..(i - 1) : ~AccSegmentAt(s, j)
    IN IF AccSegmentAt(s, k)
       THEN LET m == SpaceRun(s, k + 1)
                p == k + m + Len(ACC)
            IN [entity2 |-> SubSeq(s, 1, k),
                isna |-> FALSE,
                accounts |-> SubSeq(s, p + SpaceRun(s, p + 1) + 1, Len(s))]
       ELSE [entity2 |-> SubSeq(s, 1, k), isna |-> TRUE, accounts |-> <<>>]

\* agg_concat: ", ".join(map(str, x)); str(nan) is "nan".
agg_concat(x) ==
    join([i \in 1..Len(x) |-> IF x[i].isna THEN NAN ELSE x[i].accounts])

paybill_box(df, nlargest) ==
    LET paybillRows ==
            SelectSeq(df, LAMBDA r : /\ str_contains(r.type_class, PAY_BILL)
                                  /\ ~str_contains(r.type_desc, CHARGE))
        paybillCharges_df ==
            groupby_entity(
                SelectSeq(df, LAMBDA r : /\ str_contains(r.type_class, PAY_BILL)
                                      /\ str_contains(r.type_desc, CHARGE)),
                "withdrawn")
        paybillCharges ==
            IF paybillCharges_df # <<>> THEN paybillCharges_df[1]["sum"] ELSE 0
        extracted == [i \in 1..Len(paybillRows) |-> str_extract(paybillRows[i].entity)]
        keys == SortedValues({extracted[i].entity2 : i \in 1..Len(extracted)})
        grouped ==
            [k \in 1..Len(keys) |->
                LET members == {i \in 1..Len(paybillRows) : extracted[i].entity2 = keys[k]}
                    rows == SelectSeq(paybillRows,
                                   LAMBDA r : str_extract(r.entity).entity2 = keys[k])
                    accts == SelectSeq(extracted, LAMBDA e : e.entity2 = keys[k])
                IN [entity2 |-> keys[k],
                    count |-> Cardinality(members),
                    sum |-> ColSum(rows, "withdrawn"),
                    accounts |-> agg_concat(accts)]]
        paybillFrame == sort_values(grouped, FALSE)
        toppaybill_fig == sort_values(head(paybillFrame, nlargest), TRUE)
        totalsent == astype_int(ColSum(paybillFrame, "sum"))
        totalcharges == round(paybillCharges, 2)
        totaltransactions == ColSum(paybillFrame, "count")
    IN IF ~height_accepted(chart_height(nlargest))
       THEN [raised |-> "ValueError"]
       ELSE [raised |-> "no",
             toppaybill_fig |-> toppaybill_fig,
             totalsent |-> totalsent,
             totalcharges |-> totalcharges,
             paybillFrame |-> paybillFrame,
             totaltransactions |-> totaltransactions]

---------------------------------------------------------------------------
(* utils/customertransfer.py *)

\* mask = entity.str.contains(r"\*+"): the entity holds an asterisk.
masked(r) == str_contains(r.entity, <<"*">>)

\* Strategy 1 assigns partition(" ")[2].str.title() to the masked rows.  With
\* no masked row, str.partition on the empty selection gives a frame without
\* columns, [2] raises KeyError, and the except branch title-cases the
\* (non-masked) rows instead.  In either case every other row is left as it is.
clean_entity_names(frame) ==
    IF \E i \in 1..Len(frame) : masked(frame[i])
    THEN [i \in 1..Len(frame) |->
             IF masked(frame[i])
             THEN [frame[i] EXCEPT !.entity = title(partition_2(frame[i].entity))]
             ELSE frame[i]]
    ELSE [i \in 1..Len(frame) |-> [frame[i] EXCEPT !.entity = title(frame[i].entity)]]

\* groupby("type_class").agg(sum=("withdrawn", "sum")): one total per type_class
groupby_type_class(frame) ==
    LET keys == SortedValues({frame[i].type_class : i \in 1..Len(frame)})
    IN [k \in 1..Len(keys) |->
           [type_class |-> keys[k],
            sum |-> ColSum(SelectSeq(frame, LAMBDA r : r.type_class = keys[k]),
                           "withdrawn")]]

customer_transfer_box(df, nlargest) ==
    LET transfers == SelectSeq(df, LAMBDA r : str_contains(r.type_class, CUSTOMER_TRANSFER))
        transferChargesFrame == SelectSeq(transfers, LAMBDA r : r.type_desc = OF_FUNDS_CHARGE)
        transferRows == SelectSeq(transfers, LAMBDA r : r.type_desc # OF_FUNDS_CHARGE)
        transferFrame ==
            sort_values(groupby_entity(clean_entity_names(transferRows), "withdrawn"), FALSE)
        totalTransactions == ColSum(transferFrame, "count")
        chargesByClass == sort_values(groupby_type_class(transferChargesFrame), FALSE)
        topTransfer_fig == sort_values(head(transferFrame, nlargest), TRUE)
        totalspend == astype_int(ColSum(transferFrame, "sum"))
    IN IF chargesByClass = <<>>
       THEN [raised |-> "IndexError"]       \* .iloc[0, 1] of a frame without rows
       ELSE IF ~height_accepted(chart_height(nlargest))
       THEN [raised |-> "ValueError"]
       ELSE [raised |-> "no",
             topTransfer_fig |-> topTransfer_fig,
             totalspend |-> totalspend,
             totalcharges |-> chargesByClass[1]["sum"],
             totalTransactions |-> totalTransactions,
             transferFrame |-> transferFrame]

---------------------------------------------------------------------------
(* utils/receivemoney.py *)

receive_money_box(df, nlargest) ==
    LET individuals ==
            clean_entity_names(
                SelectSeq(df, LAMBDA r : /\ str_contains(r.type_class, FUNDS_RECEIVED)
                                      /\ ~str_contains(r.type_desc, BUSINESS)))
        receiveFrame_business ==
            SelectSeq(df, LAMBDA r : /\ str_contains(r.type_class, FUNDS_RECEIVED)
                                  /\ str_contains(r.type_desc, BUSINESS))
        concat == individuals \o receiveFrame_business
        tagged == [i \in 1..Len(concat) |->
                      [concat[i] EXCEPT !.type_desc =
                          IF endswith(@, FROM) THEN INDIVIDUAL ELSE BUSINESS]]
        keys == SortedKeys({<<tagged[i].entity, tagged[i].type_desc>> :
                                i \in 1..Len(tagged)})
        receiveFrame ==
            [k \in 1..Len(keys) |->
                LET group == SelectSeq(tagged, LAMBDA r : <<r.entity, r.type_desc>> = keys[k])
                IN [entity |-> keys[k][1],
                    type_desc |-> keys[k][2],
                    sum |-> ColSum(group, "paid_in"),
                    count |-> Len(group)]]
        topReceive_fig == sort_values(nlargest_sum(receiveFrame, nlargest), TRUE)
        totalreceived == astype_int(ColSum(receiveFrame, "sum"))
        totalreceivedTransactions == ColSum(receiveFrame, "count")
    IN IF ~height_accepted(chart_height(nlargest))
       THEN [raised |-> "ValueError"]
       ELSE [raised |-> "no",
             topReceive_fig |-> topReceive_fig,
             totalreceived |-> totalreceived,
             totalreceivedTransactions |-> totalreceivedTransactions,
             receiveFrame |-> receiveFrame]

---------------------------------------------------------------------------
(* utils/cashwithdrawal.py *)

\* Charge rows looked for among the rows already selected as withdrawals.
withdrawal_charge_rows_of_selection(df) ==
    SelectSeq(SelectSeq(df, LAMBDA r : str_contains(r.type_class, CUSTOMER_WITHDRAWAL)),
              LAMBDA r : str_contains(r.type_class, CASH_WITHDRAWAL))

\* Lines 76-83: the charge rows are selected from the frame passed in.
withdrawal_charge_rows(df) ==
    SelectSeq(df, LAMBDA r : str_contains(r.type_class, CASH_WITHDRAWAL))

cash_withdrawal_box(df, nlargest) ==
    LET withdrawalFrame ==
            sort_values(
                groupby_entity(
                    SelectSeq(df, LAMBDA r : str_contains(r.type_class, CUSTOMER_WITHDRAWAL)),
                    "withdrawn"),
                FALSE)
        topWithdrawal_fig == sort_values(head(withdrawalFrame, nlargest), TRUE)
        totalwithdrawal == astype_int(ColSum(withdrawalFrame, "sum"))
        totalcharges ==
            round(ColSum(withdrawal_charge_rows(df), "withdrawn"), 1)
        totalWithdrawals == ColSum(withdrawalFrame, "count")
    IN IF ~height_accepted(chart_height(nlargest))
       THEN [raised |-> "ValueError"]
       ELSE [raised |-> "no",
             topWithdrawal_fig |-> topWithdrawal_fig,
             totalwithdrawal |-> totalwithdrawal,
             totalcharges |-> totalcharges,
             totalWithdrawals |-> totalWithdrawals,
             withdrawalFrame |-> withdrawalFrame]

---------------------------------------------------------------------------
(* utils/airtime.py *)

airtime_box(df, nlargest) ==
    LET airtimeFrame ==
            sort_values(
                groupby_entity(
                    SelectSeq(df, LAMBDA r : str_contains(r.type_class, AIRTIME)),
                    "withdrawn"),
                TRUE)
        topAirtime_fig == sort_values(nlargest_sum(airtimeFrame, nlargest), FALSE)
        totalairtime == astype_int(ColSum(airtimeFrame, "sum"))
        totalairtimetransactions == ColSum(airtimeFrame, "count")
    IN [raised |-> "no",
        topAirtime_fig |-> topAirtime_fig,
        totalairtime |-> totalairtime,
        totalairtimetransactions |-> totalairtimetransactions,
        airtimeFrame |-> airtimeFrame]

---------------------------------------------------------------------------
(* The frames a call makes and writes *)

\* The frames of a call are kept in a heap: blocks of rows, and for every
\* variable the frame bound to it, which is a block and the positions of the
\* frame's rows in that block.  A frame that shares its block with another
\* writes into the other's rows.
NewHeap(df) ==
    [blocks |-> <<df>>,
     frames |-> [name \in {"filtered_df"} |->
                    [block |-> 1, at |-> [i \in 1..Len(df) |-> i]]]]

\* The rows of the frame bound to a variable
rows_of(heap, name) ==
    LET frame == heap.frames[name]
    IN [k \in 1..Len(frame.at) |-> heap.blocks[frame.block][frame.at[k]]]

\* name = frame
bind(heap, name, frame) ==
    [heap EXCEPT !.frames = [n \in DOMAIN heap.frames \cup {name} |->
                                IF n = name THEN frame ELSE heap.frames[n]]]

\* The positions, among the rows of a frame, that a boolean mask keeps
kept_by(mask) == SelectSeq([k \in 1..Len(mask) |-> k], LAMBDA k : mask[k])

\* dst = src[mask] giving a frame on the block of src: a view.
getitem_mask_view(heap, src, dst, mask) ==
    LET frame == heap.frames[src]
        kept == kept_by(mask)
    IN bind(heap, dst, [block |-> frame.block,
                        at |-> [j \in 1..Len(kept) |-> frame.at[kept[j]]]])

\* dst = src[mask], indexing with a boolean Series: the rows the mask keeps
\* are taken into a block of their own, so the frame is a copy.
getitem_mask(heap, src, dst, mask) ==
    LET frame == heap.frames[src]
        kept == kept_by(mask)
        block == [j \in 1..Len(kept) |-> heap.blocks[frame.block][frame.at[kept[j]]]]
    IN bind([heap EXCEPT !.blocks = Append(@, block)], dst,
            [block |-> Len(heap.blocks) + 1, at |-> [j \in 1..Len(kept) |-> j]])

\* name.loc[mask, col] = values, and name[col] = values with every row in the
\* mask: the rows of the frame's block at the frame's positions are written.
loc_setitem(heap, name, mask, col, values) ==
    LET frame == heap.frames[name]
    IN [heap EXCEPT !.blocks[frame.block] =
           [p \in 1..Len(@) |->
               IF \E k \in 1..Len(frame.at) : frame.at[k] = p /\ mask[k]
               THEN LET k == CHOOSE k \in 1..Len(frame.at) : frame.at[k] = p /\ mask[k]
                    IN [@[p] EXCEPT ![col] = values[k]]
               ELSE @[p]]]

\* name[["entity2", "accounts"]] = extracted: two columns more in the rows of
\* the frame's block at the frame's positions.
setitem_columns(heap, name, extracted) ==
    LET frame == heap.frames[name]
    IN [heap EXCEPT !.blocks[frame.block] =
           [p \in 1..Len(@) |->
               IF \E k \in 1..Len(frame.at) : frame.at[k] = p
               THEN LET k == CHOOSE k \in 1..Len(frame.at) : frame.at[k] = p
                    IN [f \in DOMAIN @[p] \cup {"entity2", "accounts"} |->
                           IF f = "entity2" THEN extracted[k].entity2
                           ELSE IF f = "accounts"
                                THEN IF extracted[k].isna THEN NAN ELSE extracted[k].accounts
                                ELSE @[p][f]]
               ELSE @[p]]]

\* dst = pd.concat([a, b], ignore_index=True): a frame on a block of its own
concat(heap, a, b, dst) ==
    LET block == rows_of(heap, a) \o rows_of(heap, b)
    IN bind([heap EXCEPT !.blocks = Append(@, block)], dst,
            [block |-> Len(heap.blocks) + 1, at |-> [j \in 1..Len(block) |-> j]])

\* The mask of a column test over the rows of a frame
AllRows(rows) == [k \in 1..Len(rows) |-> TRUE]

\* The one element of a set of one
Only(S) == CHOOSE x \in S : TRUE

\* The heap after df[type_class contains marker], under the name dst
selected_by_class(heap, dst, marker) ==
    LET df == rows_of(heap, "filtered_df")
    IN getitem_mask(heap, "filtered_df", dst,
                    [k \in 1..Len(df) |-> str_contains(df[k].type_class, marker)])

\* The heap after df[type_class contains marker & type_desc contains (or does
\* not contain) pat], under the name dst
selected_by_class_and_desc(heap, dst, marker, pat, with) ==
    LET df == rows_of(heap, "filtered_df")
    IN getitem_mask(heap, "filtered_df", dst,
                    [k \in 1..Len(df) |->
                        /\ str_contains(df[k].type_class, marker)
                        /\ str_contains(df[k].type_desc, pat) <=> with])

\* merchantpayments.py:53-54, 94-96; cashwithdrawal.py:38, 78; airtime.py:35:
\* selections that are grouped or added up, and no assignment.
selected_only(heap, marker, charge_marker) ==
    LET H1 == {selected_by_class(h, "selected", marker) : h \in {heap}}
    IN Only({selected_by_class(h, "charges", charge_marker) : h \in H1})

\* paybill.py:27-47: the two selections, and the columns added to the first.
paybill_frames(heap) ==
    LET H1 == {selected_by_class_and_desc(h, "paybillFrame", PAY_BILL, CHARGE, FALSE) :
                  h \in {heap}}
        H2 == {selected_by_class_and_desc(h, "paybillCharges_df", PAY_BILL, CHARGE, TRUE) :
                  h \in H1}
    IN Only({LET rows == rows_of(h, "paybillFrame")
             IN setitem_columns(h, "paybillFrame",
                                [k \in 1..Len(rows) |-> str_extract(rows[k].entity)]) :
                h \in H2})

\* The try and except of customertransfer.py:61-69 and receivemoney.py:36-47
\* on the frame bound to name: the names of the masked rows are assigned, or,
\* with no masked row, the title-cased names of the other rows.
entity_assigned(heap, name) ==
    LET rows == rows_of(heap, name)
        mask == [k \in 1..Len(rows) |-> masked(rows[k])]
    IN IF \E k \in 1..Len(rows) : mask[k]
       THEN loc_setitem(heap, name, mask, "entity",
                        [k \in 1..Len(rows) |-> title(partition_2(rows[k].entity))])
       ELSE loc_setitem(heap, name, [k \in 1..Len(rows) |-> ~mask[k]], "entity",
                        [k \in 1..Len(rows) |-> title(rows[k].entity)])

\* The heap after dst = transferFrame[type_desc == (or !=) "of Funds Charge"]
selected_by_charge(heap, dst, charge) ==
    LET transfers == rows_of(heap, "transferFrame")
    IN getitem_mask(heap, "transferFrame", dst,
                    [k \in 1..Len(transfers) |->
                        (transfers[k].type_desc = OF_FUNDS_CHARGE) <=> charge])

\* customertransfer.py:54-69
transfer_frames(heap) ==
    LET H1 == {selected_by_class(h, "transferFrame", CUSTOMER_TRANSFER) : h \in {heap}}
        H2 == {selected_by_charge(h, "transferChargesFrame", TRUE) : h \in H1}
        H3 == {selected_by_charge(h, "transferFrame", FALSE) : h \in H2}
    IN Only({entity_assigned(h, "transferFrame") : h \in H3})

\* receivemoney.py:30-58
receive_frames(heap) ==
    LET H1 == {selected_by_class_and_desc(h, "receiveFrame", FUNDS_RECEIVED, BUSINESS, FALSE) :
                  h \in {heap}}
        H2 == {entity_assigned(h, "receiveFrame") : h \in H1}
        H3 == {selected_by_class_and_desc(h, "receiveFrame_business", FUNDS_RECEIVED,
                                          BUSINESS, TRUE) : h \in H2}
        H4 == {concat(h, "receiveFrame", "receiveFrame_business", "receiveFrame") : h \in H3}
    IN Only({LET rows == rows_of(h, "receiveFrame")
             IN loc_setitem(h, "receiveFrame", AllRows(rows), "type_desc",
                            [k \in 1..Len(rows) |->
                                IF endswith(rows[k].type_desc, FROM)
                                THEN INDIVIDUAL ELSE BUSINESS]) :
                h \in H4})

\* The heap when a processor called with df has made its frames and written
\* into them; what follows in the processor groups, sorts and adds up.
heap_after(box, df) ==
    CASE box = "merchant_box" -> selected_only(NewHeap(df), MERCHANT_PAYMENT, PAY_MERCHANT)
      [] box = "paybill_box" -> paybill_frames(NewHeap(df))
      [] box = "customer_transfer_box" -> transfer_frames(NewHeap(df))
      [] box = "receive_money_box" -> receive_frames(NewHeap(df))
      [] box = "cash_withdrawal_box" ->
             selected_only(NewHeap(df), CUSTOMER_WITHDRAWAL, CASH_WITHDRAWAL)
      [] box = "airtime_box" -> selected_only(NewHeap(df), AIRTIME, AIRTIME)

\* The caller's frame when the processor is done
ledger_after(box, df) == rows_of(heap_after(box, df), "filtered_df")

---------------------------------------------------------------------------
(* Input ledgers: rows of the cleaned statement *)

PAY_MERCHANT_CHARGE == <<"P", "a", "y", " ", "M", "e", "r", "c", "h", "a", "n", "t", " ", "C", "h", "a", "r", "g", "e">>
AIRTIME_PURCHASE == <<"A", "i", "r", "t", "i", "m", "e", " ", "P", "u", "r", "c", "h", "a", "s", "e">>
CUSTOMER_TRANSFER_FULIZA ==
    <<"C", "u", "s", "t", "o", "m", "e", "r", " ", "T", "r", "a", "n", "s", "f", "e", "r",
      " ", "F", "u", "l", "i", "z", "a">>
TO == <<"t", "o">>
FROM_BUSINESS == <<"f", "r", "o", "m", " ", "B", "u", "s", "i", "n", "e", "s", "s">>
AT_AGENT == <<"A", "t", " ", "A", "g", "e", "n", "t">>
NAIVAS == <<"N", "A", "I", "V", "A", "S">>
QMART == <<"Q", "M", "A", "R", "T">>
KPLC_ACC_1 == <<"K", "P", "L", "C", " ", "A", "c", "c", ".", " ", "1">>
KPLC_ACC_2 == <<"K", "P", "L", "C", " ", "A", "c", "c", ".", " ", "2">>
DSTV == <<"D", "S", "T", "V">>
MASKED_JOHN == <<"2", "5", "*", "*", "3", " ", "J", "O", "H", "N", " ", "D", "O", "E">>
MASKED_ONLY == <<"2", "5", "*", "*", "3">>
JOHN_UPPER == <<"J", "O", "H", "N", " ", "D", "O", "E">>
JOHN_TITLE == <<"J", "o", "h", "n", " ", "D", "o", "e">>
AGENT_A == <<"A", "G", "E", "N", "T", " ", "A">>
AGENT_B == <<"A", "G", "E", "N", "T", " ", "B">>
SAFARICOM == <<"S", "A", "F", "A", "R", "I", "C", "O", "M">>
AIRTEL == <<"A", "I", "R", "T", "E", "L">>

\* Amounts: 0.5 and 1.0
Amounts == {10, 20}

Row(tc, td, e, out, in) ==
    [type_class |-> tc, type_desc |-> td, entity |-> e,
     withdrawn |-> out, paid_in |-> in, date_time |-> 10]

MerchantRows ==
    {Row(MERCHANT_PAYMENT, TO, e, a, 0) : e \in {NAIVAS, QMART}, a \in Amounts}
    \cup {Row(PAY_MERCHANT_CHARGE, <<>>, <<>>, 10, 0)}

PaybillRows ==
    {Row(PAY_BILL, TO, e, a, 0) : e \in {KPLC_ACC_1, DSTV}, a \in Amounts}
    \cup {Row(PAY_BILL, TO, KPLC_ACC_2, 20, 0),
          Row(PAY_BILL, CHARGE, DSTV, 10, 0),
          Row(PAY_BILL, CHARGE, KPLC_ACC_1, 20, 0)}

TransferRows ==
    {Row(CUSTOMER_TRANSFER, TO, e, 20, 0) : e \in {MASKED_JOHN, JOHN_UPPER, JOHN_TITLE}}
    \cup {Row(CUSTOMER_TRANSFER, TO, MASKED_JOHN, 10, 0),
          Row(CUSTOMER_TRANSFER, TO, MASKED_ONLY, 10, 0),
          Row(CUSTOMER_TRANSFER, OF_FUNDS_CHARGE, <<>>, 10, 0),
          Row(CUSTOMER_TRANSFER_FULIZA, OF_FUNDS_CHARGE, <<>>, 20, 0)}

ReceiveRows ==
    {Row(FUNDS_RECEIVED, FROM, e, 0, 20) : e \in {MASKED_JOHN, JOHN_UPPER, JOHN_TITLE}}
    \cup {Row(FUNDS_RECEIVED, FROM, MASKED_JOHN, 0, 10),
          Row(FUNDS_RECEIVED, FROM_BUSINESS, JOHN_TITLE, 0, 10),
          Row(FUNDS_RECEIVED, FROM_BUSINESS, JOHN_TITLE, 0, 20)}

\* Withdrawals at two agents, a charge row of 0.25 that is no withdrawal, a
\* row whose category holds both markers, and a row of another category.
WithdrawalRows ==
    {Row(CUSTOMER_WITHDRAWAL, AT_AGENT, e, a, 0) : e \in {AGENT_A, AGENT_B}, a \in Amounts}
    \cup {Row(CASH_WITHDRAWAL, CHARGE, AGENT_A, 5, 0),
          Row(CUSTOMER_WITHDRAWAL \o <<" ">> \o CASH_WITHDRAWAL, CHARGE, AGENT_A, 10, 0),
          Row(MERCHANT_PAYMENT, TO, NAIVAS, 20, 0)}

AirtimeRows ==
    {Row(AIRTIME_PURCHASE, <<>>, e, a, 0) : e \in {SAFARICOM, AIRTEL}, a \in Amounts}

\* The frames of at most MaxRows rows over a set of rows
Ledgers(Rows) == UNION {[1..n -> Rows] : n \in 0..MaxRows}

InputLedgers ==
    Ledgers(MerchantRows) \cup Ledgers(PaybillRows) \cup Ledgers(TransferRows)
    \cup Ledgers(ReceiveRows) \cup Ledgers(WithdrawalRows) \cup Ledgers(AirtimeRows)

TiePolicies == {"keep", "reverse"}

---------------------------------------------------------------------------
(* The processors called directly on a ledger *)

NotCalled == [box |-> "none"]
NoFile == [none |-> TRUE, statement |-> <<>>]
NoFrame == [none |-> TRUE, frame |-> <<>>]
NoError == [none |-> TRUE, text |-> ""]

\* m_top.py lines 53-60 and 137-138; the toggles are off until switched on.
\* Line 43: the number of top entities before the sidebar control is read
N_LARGEST == 9

\* Lines 126-133: the sidebar's number control takes min_value=5 to
\* max_value=15; the user's choices are drawn from the two ends and the default.
n_largest_options == {5, N_LARGEST, 15}

\* Lines 53-60; a widget's key that is not in the session reads as the
\* widget's default.
NewSession ==
    [pdf_path |-> NoFile,
     pdf_password |-> "",
     process_clicked |-> FALSE,
     load_error |-> NoError,
     disable |-> [date |-> FALSE, month |-> FALSE],
     date_filter |-> FALSE,
     month_filter |-> FALSE,
     n_largest |-> N_LARGEST]

\* The controls of the page: the upload form (lines 75-82), the number control
\* (126-133), the two toggles (146-157), the date or month control (163, 194)
\* and the "Upload a new statement" button (403).
Widgets == {"form", "n_largest", "date_filter", "month_filter", "selection", "upload_new"}

\* What the browser shows of the controls, and how it shows the toggles, as
\* the last run to draw them has drawn them (disabled or not).
NoWidgets == [shown |-> {}, disable |-> [date |-> FALSE, month |-> FALSE]]

\* A run of the script: where it is, what the event that began it makes the
\* form's button (process) and the last button (button) return, the controls
\* it has drawn so far, and whether it has reached the sections.
NoScript == [pc |-> "none", process |-> FALSE, button |-> FALSE,
             drawn |-> {}, filtered |-> FALSE, browser |-> NoWidgets]

Init ==
    /\ filtered_df \in InputLedgers
    /\ quicksort_ties \in TiePolicies
    /\ ret = NotCalled
    /\ statement = NoFile
    /\ session_state = NewSession
    /\ script = NoScript
    /\ df_cleaned = NoFrame
    /\ invoked = <<>>
    /\ rendered = {}

\* A behaviour is one call: the processors keep no state between calls, so a
\* second call on the same frame is another behaviour from the same Init.
Return(box, n, out) ==
    /\ ret = NotCalled
    /\ ret' = [box |-> box, nlargest |-> n, out |-> out]
    /\ filtered_df' = ledger_after(box, filtered_df)
    /\ UNCHANGED <<quicksort_ties, statement,
                   session_state, script, df_cleaned, invoked, rendered>>

CallMerchantBox ==
    \E n \in 1..MaxN : Return("merchant_box", n, merchant_box(filtered_df, n))

CallPaybillBox ==
    \E n \in 1..MaxN : Return("paybill_box", n, paybill_box(filtered_df, n))

CallCustomerTransferBox ==
    \E n \in 1..MaxN :
        Return("customer_transfer_box", n, customer_transfer_box(filtered_df, n))

CallReceiveMoneyBox ==
    \E n \in 1..MaxN : Return("receive_money_box", n, receive_money_box(filtered_df, n))

CallCashWithdrawalBox ==
    \E n \in 1..MaxN :
        Return("cash_withdrawal_box", n, cash_withdrawal_box(filtered_df, n))

CallAirtimeBox ==
    \E n \in 1..MaxN : Return("airtime_box", n, airtime_box(filtered_df, n))

Next ==
    \/ CallMerchantBox
    \/ CallPaybillBox
    \/ CallCustomerTransferBox
    \/ CallReceiveMoneyBox
    \/ CallCashWithdrawalBox
    \/ CallAirtimeBox

Spec == Init /\ [][Next]_vars

---------------------------------------------------------------------------
(* m_top.py: the page script, one run after another in a browser session *)

\* A statement with every category in it, over two days
FullStatement ==
    <<Row(MERCHANT_PAYMENT, TO, NAIVAS, 20, 0),
      Row(PAY_BILL, TO, KPLC_ACC_1, 20, 0),
      Row(CUSTOMER_TRANSFER, TO, JOHN_UPPER, 20, 0),
      Row(CUSTOMER_TRANSFER, OF_FUNDS_CHARGE, <<>>, 10, 0),
      [Row(MERCHANT_PAYMENT, TO, NAIVAS, 20, 0) EXCEPT !.date_time = 11],
      [Row(FUNDS_RECEIVED, FROM, JOHN_UPPER, 0, 20) EXCEPT !.date_time = 11],
      [Row(CUSTOMER_WITHDRAWAL, AT_AGENT, AGENT_A, 20, 0) EXCEPT !.date_time = 20],
      [Row(AIRTIME_PURCHASE, <<>>, SAFARICOM, 20, 0) EXCEPT !.date_time = 20],
      [Row(CUSTOMER_TRANSFER, OF_FUNDS_CHARGE, <<>>, 10, 0) EXCEPT !.date_time = 21]>>

\* The statements a user can have: one without rows, one with a single
\* category, three with a transfer charge and one other category, and the
\* full one.
PageLedgers ==
    {<<>>,
     <<Row(MERCHANT_PAYMENT, TO, NAIVAS, 20, 0)>>,
     <<Row(MERCHANT_PAYMENT, TO, NAIVAS, 20, 0),
       [Row(CUSTOMER_TRANSFER, OF_FUNDS_CHARGE, <<>>, 10, 0) EXCEPT !.date_time = 21]>>,
     <<Row(PAY_BILL, TO, KPLC_ACC_1, 20, 0),
       Row(CUSTOMER_TRANSFER, OF_FUNDS_CHARGE, <<>>, 10, 0)>>,
     <<Row(AIRTIME_PURCHASE, <<>>, SAFARICOM, 10, 0),
       Row(CUSTOMER_TRANSFER, OF_FUNDS_CHARGE, <<>>, 10, 0)>>,
     FullStatement}

Files == {[none |-> FALSE, statement |-> l] : l \in PageLedgers}
Passwords == {"right", "wrong"}
ExceptionTexts == {"", "Incorrect password"}

\* load_pdf_data and clean_data of load_wrangle: the cleaned statement, or an
\* exception when the document cannot be read with the password given.
load_and_clean(pdf_file, password) ==
    [raised |-> password # "right", frame |-> pdf_file.statement]

\* Timestamp.date(), pd.to_datetime(date), strftime("%B_%Y")
date(dt) == dt \div 10
to_datetime(day) == day * 10
month_year(dt) == dt \div 10

SeqMin(s) == CHOOSE x \in {s[i] : i \in 1..Len(s)} : \A i \in 1..Len(s) : x <= s[i]
SeqMax(s) == CHOOSE x \in {s[i] : i \in 1..Len(s)} : \A i \in 1..Len(s) : x >= s[i]

\* What st.date_input can return: a start and an end day between the first
\* and the last day of the statement, or a start day alone.
DateRanges(df) ==
    LET days == date(SeqMin(Col(df, "date_time")))..date(SeqMax(Col(df, "date_time")))
    IN {<<s, e>> : s \in days, e \in days} \cup {<<s>> : s \in days}

\* The options of the month control
month_list(df) == {month_year(df[i].date_time) : i \in 1..Len(df)}

\* Python truthiness of session_state.load_error
truthy(error) == ~error.none /\ error.text # ""

EndedPcs == {"stopped", "exception", "done"}

\* The script is a sequence of steps, each from one st.* call after which the
\* state of the model differs to the next such call; a user event can take
\* the place of any step, and the run under way is then given up where it is.
\* The st.* calls in between (the header, the captions, the dividers, the
\* messages) leave the state as it is.

\* A rerun of the script from its first line.  The browser keeps what the runs
\* before have drawn until the new run draws it again or ends.
StartRun(process, button) ==
    /\ script' = [pc |-> "form", process |-> process, button |-> button,
                  drawn |-> {}, filtered |-> FALSE, browser |-> script.browser]
    /\ df_cleaned' = NoFrame
    /\ filtered_df' = <<>>
    /\ ret' = NotCalled
    /\ invoked' = <<>>
    /\ rendered' = {}

\* The first run of a session; statement is the file the form's uploader holds.
InitPage ==
    /\ quicksort_ties \in TiePolicies
    /\ statement = NoFile
    /\ session_state = NewSession
    /\ script = [NoScript EXCEPT !.pc = "form"]
    /\ df_cleaned = NoFrame
    /\ filtered_df = <<>>
    /\ ret = NotCalled
    /\ invoked = <<>>
    /\ rendered = {}

\* The user submits the upload form, which the browser shows: a rerun in
\* which the form's button returns True.
SubmitForm ==
    /\ "form" \in script.browser.shown
    /\ StartRun(TRUE, FALSE)
    /\ UNCHANGED <<session_state, quicksort_ties, statement>>

\* An event of another control: the form's button returns False in the rerun,
\* and a submission that no run has taken over is lost with the run given up.
OtherEvent(button) ==
    /\ StartRun(FALSE, button)
    /\ UNCHANGED <<quicksort_ties, statement>>

\* update_toggles, the on_change callback of both toggles
update_toggles(state) ==
    [state EXCEPT !.disable = [month |-> state.date_filter, date |-> state.month_filter]]

\* The user flips the date range toggle, which the browser shows and shows
\* enabled: that is how the last run to reach lines 146-151 has drawn it, also
\* while a later run is under way.
ToggleDateFilter ==
    /\ "date_filter" \in script.browser.shown
    /\ ~script.browser.disable.date
    /\ session_state' =
           update_toggles([session_state EXCEPT !.date_filter = ~session_state.date_filter])
    /\ OtherEvent(FALSE)

\* The user flips the month toggle, which the browser shows and shows enabled.
ToggleMonthFilter ==
    /\ "month_filter" \in script.browser.shown
    /\ ~script.browser.disable.month
    /\ session_state' =
           update_toggles([session_state EXCEPT !.month_filter = ~session_state.month_filter])
    /\ OtherEvent(FALSE)

\* The user changes the date range or the months: a rerun with nothing else.
ChangeSelection ==
    /\ "selection" \in script.browser.shown
    /\ OtherEvent(FALSE)
    /\ UNCHANGED session_state

\* The user sets the number of top entities (lines 126-133): a rerun in which
\* the control returns the new number.
ChangeNLargest ==
    /\ "n_largest" \in script.browser.shown
    /\ \E n \in n_largest_options \ {session_state.n_largest} :
           session_state' = [session_state EXCEPT !.n_largest = n]
    /\ OtherEvent(FALSE)

\* The user presses "Upload a new statement", drawn at the end of a full run.
ClickUploadNew ==
    /\ "upload_new" \in script.browser.shown
    /\ OtherEvent(TRUE)
    /\ UNCHANGED session_state

\* The run with a control drawn: the browser shows it from now on.
Draw(run, widget) ==
    [run EXCEPT !.drawn = @ \cup {widget}, !.browser.shown = @ \cup {widget}]

\* The run at its end: what it has not drawn leaves the browser.
Ended(run, pc) == [run EXCEPT !.pc = pc, !.browser.shown = run.drawn]

\* The script moves on, or ends.
GoTo(pc) ==
    script' = IF pc \in EndedPcs THEN Ended(script, pc) ELSE [script EXCEPT !.pc = pc]

\* The session state at the end of a run that has not shown the sidebar: the
\* framework may drop the state of widgets a run has not rendered, and their
\* keys then read as the defaults; the disable entry is not widget state and
\* stays.
WidgetStateDropped(state) ==
    {state, [state EXCEPT !.date_filter = FALSE, !.month_filter = FALSE,
                          !.n_largest = N_LARGEST]}

\* Lines 75-88: the form is drawn; in a run begun by its button the uploader
\* and the password input return what the user has submitted, a file of theirs
\* or none and a password, and the session takes them over.
Form ==
    /\ script.pc = "form"
    /\ IF script.process
       THEN \E pdf \in Files \cup {NoFile}, password \in Passwords :
                /\ statement' = pdf
                /\ session_state' = [session_state EXCEPT !.pdf_path = pdf,
                                                          !.pdf_password = password,
                                                          !.process_clicked = TRUE,
                                                          !.load_error = NoError]
       ELSE UNCHANGED <<statement, session_state>>
    /\ script' = [Draw(script, "form") EXCEPT !.pc = "gate"]
    /\ UNCHANGED <<filtered_df, ret, quicksort_ties, df_cleaned, invoked, rendered>>

\* Lines 90-108 and 112-114: the statement is loaded and the run goes on to
\* the sidebar, or to st.error with the exception's text recorded; with
\* Process not clicked or no file the run stops.
Gate ==
    /\ script.pc = "gate"
    /\ IF session_state.process_clicked /\ ~session_state.pdf_path.none
       THEN LET loaded == load_and_clean(session_state.pdf_path,
                                         session_state.pdf_password)
            IN IF ~loaded.raised
               THEN /\ df_cleaned' = [none |-> FALSE, frame |-> loaded.frame]
                    /\ session_state' = [session_state EXCEPT !.load_error = NoError]
                    /\ GoTo("sidebar")
               ELSE \E text \in ExceptionTexts :
                    LET error == [none |-> FALSE, text |-> text]
                    IN /\ df_cleaned' = NoFrame
                       /\ session_state' = [session_state EXCEPT !.load_error = error]
                       /\ GoTo(IF truthy(error) THEN "error" ELSE "sidebar")
       ELSE /\ session_state' \in WidgetStateDropped(session_state)
            /\ df_cleaned' = df_cleaned
            /\ GoTo("stopped")
    /\ UNCHANGED <<filtered_df, ret, quicksort_ties, statement, invoked, rendered>>

\* Lines 109-111: the error is on the page; process_clicked is reset and the
\* run stops.
ShowLoadError ==
    /\ script.pc = "error"
    /\ session_state' \in
           WidgetStateDropped([session_state EXCEPT !.process_clicked = FALSE])
    /\ GoTo("stopped")
    /\ UNCHANGED <<filtered_df, ret, quicksort_ties, statement, df_cleaned,
                   invoked, rendered>>

\* The frame the filters leave (lines 159-200)
filter_frame(df, state, date_range, month) ==
    IF state.date_filter
    THEN IF Len(date_range) = 2
         THEN SelectSeq(df, LAMBDA r : /\ r.date_time >= to_datetime(date_range[1])
                                    /\ r.date_time <= to_datetime(date_range[2]))
         ELSE df
    ELSE IF state.month_filter
         THEN SelectSeq(df, LAMBDA r : month_year(r.date_time) \in month)
         ELSE df

\* Lines 118-133: the sidebar reads the statement's first and last date_time,
\* which raises on None and on a statement without rows, then draws the number
\* control.
Sidebar ==
    /\ script.pc = "sidebar"
    /\ IF df_cleaned.none \/ df_cleaned.frame = <<>>
       THEN /\ GoTo("exception")
            /\ session_state' \in WidgetStateDropped(session_state)
       ELSE /\ script' = [Draw(script, "n_largest") EXCEPT !.pc = "date_toggle"]
            /\ UNCHANGED session_state
    /\ UNCHANGED <<filtered_df, ret, quicksort_ties, statement, df_cleaned,
                   invoked, rendered>>

\* Lines 137-151: the date range toggle is drawn, disabled or not as the
\* session's disable entry says.
DateToggle ==
    /\ script.pc = "date_toggle"
    /\ script' = [Draw(script, "date_filter") EXCEPT
                      !.pc = "month_toggle",
                      !.browser.disable.date = session_state.disable.date]
    /\ UNCHANGED <<filtered_df, ret, quicksort_ties, statement, session_state,
                   df_cleaned, invoked, rendered>>

\* Lines 152-157: the month toggle is drawn.
MonthToggle ==
    /\ script.pc = "month_toggle"
    /\ script' = [Draw(script, "month_filter") EXCEPT
                      !.pc = "filter",
                      !.browser.disable.month = session_state.disable.month]
    /\ UNCHANGED <<filtered_df, ret, quicksort_ties, statement, session_state,
                   df_cleaned, invoked, rendered>>

\* Lines 159-201: with a filter on, its control is drawn and the statement is
\* narrowed to what the control returns.
Filter ==
    /\ script.pc = "filter"
    /\ \E date_range \in DateRanges(df_cleaned.frame),
          month \in SUBSET month_list(df_cleaned.frame) :
           filtered_df' = filter_frame(df_cleaned.frame, session_state, date_range, month)
    /\ script' = [(IF session_state.date_filter \/ session_state.month_filter
                   THEN Draw(script, "selection")
                   ELSE script) EXCEPT !.pc = "merchant", !.filtered = TRUE]
    /\ UNCHANGED <<ret, quicksort_ties, statement, session_state, df_cleaned,
                   invoked, rendered>>

\* A processor call of the script: an exception ends the run.
Section(box, out, shown, name, next) ==
    /\ invoked' = Append(invoked, box)
    /\ ret' = [box |-> box, nlargest |-> session_state.n_largest, out |-> out]
    /\ IF out.raised # "no"
       THEN /\ GoTo("exception")
            /\ UNCHANGED rendered
       ELSE /\ GoTo(next)
            /\ rendered' = IF shown THEN rendered \cup {name} ELSE rendered
    /\ filtered_df' = ledger_after(box, filtered_df)
    /\ UNCHANGED <<quicksort_ties, statement, session_state, df_cleaned>>

\* Lines 203-270: the pay-bill section lies inside the merchant section.
MerchantSection ==
    /\ script.pc = "merchant"
    /\ LET n == session_state.n_largest
           m == merchant_box(filtered_df, n)
           pb == paybill_box(filtered_df, n)
       IN IF m.raised # "no"
          THEN /\ invoked' = Append(invoked, "merchant_box")
               /\ ret' = [box |-> "merchant_box", nlargest |-> n, out |-> m]
               /\ rendered' = rendered
               /\ GoTo("exception")
          ELSE IF m.merchantCount > 0
          THEN /\ invoked' = invoked \o <<"merchant_box", "paybill_box">>
               /\ ret' = [box |-> "paybill_box", nlargest |-> n, out |-> pb]
               /\ IF pb.raised # "no"
                  THEN /\ rendered' = rendered \cup {"merchant"}
                       /\ GoTo("exception")
                  ELSE /\ rendered' = rendered \cup {"merchant", "paybill"}
                       /\ GoTo("transfer")
          ELSE /\ invoked' = Append(invoked, "merchant_box")
               /\ ret' = [box |-> "merchant_box", nlargest |-> n, out |-> m]
               /\ rendered' = rendered
               /\ GoTo("transfer")
    /\ UNCHANGED <<filtered_df, quicksort_ties, statement, session_state, df_cleaned>>

\* Lines 273-304
TransferSection ==
    /\ script.pc = "transfer"
    /\ LET out == customer_transfer_box(filtered_df, session_state.n_largest)
       IN Section("customer_transfer_box", out,
                  out.raised = "no" /\ out.totalTransactions > 0, "transfer", "receive")

\* Lines 306-337
ReceiveSection ==
    /\ script.pc = "receive"
    /\ LET out == receive_money_box(filtered_df, session_state.n_largest)
       IN Section("receive_money_box", out,
                  out.totalreceivedTransactions > 0, "receive", "withdrawal")

\* Lines 339-376
WithdrawalSection ==
    /\ script.pc = "withdrawal"
    /\ LET out == cash_withdrawal_box(filtered_df, session_state.n_largest)
       IN Section("cash_withdrawal_box", out,
                  out.totalWithdrawals > 0, "withdrawal", "airtime")

\* Lines 379-400
AirtimeSection ==
    /\ script.pc = "airtime"
    /\ LET out == airtime_box(filtered_df, session_state.n_largest)
       IN Section("airtime_box", out, out.totalairtime > 0, "airtime", "reset")

\* Lines 402-406: the button's keys are deleted, and lines 53-56 of the next
\* run set them to None and "" again.
ResetOption ==
    /\ script.pc = "reset"
    /\ session_state' =
           IF script.button
           THEN [session_state EXCEPT !.pdf_path = NoFile, !.pdf_password = ""]
           ELSE session_state
    /\ script' = Ended(Draw(script, "upload_new"), "done")
    /\ UNCHANGED <<filtered_df, ret, quicksort_ties, statement, df_cleaned,
                   invoked, rendered>>

NextPage ==
    \/ SubmitForm
    \/ ToggleDateFilter
    \/ ToggleMonthFilter
    \/ ChangeSelection
    \/ ChangeNLargest
    \/ ClickUploadNew
    \/ Form
    \/ Gate
    \/ ShowLoadError
    \/ Sidebar
    \/ DateToggle
    \/ MonthToggle
    \/ Filter
    \/ MerchantSection
    \/ TransferSection
    \/ ReceiveSection
    \/ WithdrawalSection
    \/ AirtimeSection
    \/ ResetOption

SpecPage == InitPage /\ [][NextPage]_vars

---------------------------------------------------------------------------
(* Reading a processor's result *)

Boxes == {"merchant_box", "paybill_box", "customer_transfer_box",
          "receive_money_box", "cash_withdrawal_box", "airtime_box"}

\* The processor box applied to a frame
Call(box, df, n) ==
    CASE box = "merchant_box" -> merchant_box(df, n)
      [] box = "paybill_box" -> paybill_box(df, n)
      [] box = "customer_transfer_box" -> customer_transfer_box(df, n)
      [] box = "receive_money_box" -> receive_money_box(df, n)
      [] box = "cash_withdrawal_box" -> cash_withdrawal_box(df, n)
      [] box = "airtime_box" -> airtime_box(df, n)

\* The aggregate table, the total amount and the transaction count returned
FrameOf(box, out) ==
    CASE box = "merchant_box" -> out.merchantFrame
      [] box = "paybill_box" -> out.paybillFrame
      [] box = "customer_transfer_box" -> out.transferFrame
      [] box = "receive_money_box" -> out.receiveFrame
      [] box = "cash_withdrawal_box" -> out.withdrawalFrame
      [] box = "airtime_box" -> out.airtimeFrame

TotalOf(box, out) ==
    CASE box = "merchant_box" -> out.totalspend
      [] box = "paybill_box" -> out.totalsent
      [] box = "customer_transfer_box" -> out.totalspend
      [] box = "receive_money_box" -> out.totalreceived
      [] box = "cash_withdrawal_box" -> out.totalwithdrawal
      [] box = "airtime_box" -> out.totalairtime

CountOf(box, out) ==
    CASE box = "merchant_box" -> out.merchantCount
      [] box = "paybill_box" -> out.totaltransactions
      [] box = "customer_transfer_box" -> out.totalTransactions
      [] box = "receive_money_box" -> out.totalreceivedTransactions
      [] box = "cash_withdrawal_box" -> out.totalWithdrawals
      [] box = "airtime_box" -> out.totalairtimetransactions

\* The rows plotted: the top-N selection
FigOf(box, out) ==
    CASE box = "merchant_box" -> out.topMerchant_fig
      [] box = "paybill_box" -> out.toppaybill_fig
      [] box = "customer_transfer_box" -> out.topTransfer_fig
      [] box = "receive_money_box" -> out.topReceive_fig
      [] box = "cash_withdrawal_box" -> out.topWithdrawal_fig
      [] box = "airtime_box" -> out.topAirtime_fig

\* Entity, kind (received funds only), count and amount of each row of a table
Aggregates(box, frame) ==
    [i \in 1..Len(frame) |->
        [name |-> IF box = "paybill_box" THEN frame[i].entity2 ELSE frame[i].entity,
         kind |-> IF box = "receive_money_box" THEN frame[i].type_desc ELSE <<>>,
         count |-> frame[i].count,
         sum |-> frame[i]["sum"]]]

Called == ret.box # "none"
Returned == Called /\ ret.out.raised = "no"
Frame == FrameOf(ret.box, ret.out)

\* The rows of a ledger that are principal rows of a category
PrincipalRows(box, df) ==
    CASE box = "merchant_box" ->
             SelectSeq(df, LAMBDA r : str_contains(r.type_class, MERCHANT_PAYMENT))
      [] box = "paybill_box" ->
             SelectSeq(df, LAMBDA r : /\ str_contains(r.type_class, PAY_BILL)
                                   /\ ~str_contains(r.type_desc, CHARGE))
      [] box = "customer_transfer_box" ->
             SelectSeq(df, LAMBDA r : /\ str_contains(r.type_class, CUSTOMER_TRANSFER)
                                   /\ r.type_desc # OF_FUNDS_CHARGE)
      [] box = "receive_money_box" ->
             SelectSeq(df, LAMBDA r : str_contains(r.type_class, FUNDS_RECEIVED))
      [] box = "cash_withdrawal_box" ->
             SelectSeq(df, LAMBDA r : str_contains(r.type_class, CUSTOMER_WITHDRAWAL))
      [] box = "airtime_box" ->
             SelectSeq(df, LAMBDA r : str_contains(r.type_class, AIRTIME))

\* The rows of a ledger that match the charge marker of a category
ChargeBoxes == {"merchant_box", "paybill_box", "customer_transfer_box",
                "cash_withdrawal_box"}

ChargeRows(box, df) ==
    CASE box = "merchant_box" ->
             SelectSeq(df, LAMBDA r : str_contains(r.type_class, PAY_MERCHANT))
      [] box = "paybill_box" ->
             SelectSeq(df, LAMBDA r : /\ str_contains(r.type_class, PAY_BILL)
                                   /\ str_contains(r.type_desc, CHARGE))
      [] box = "customer_transfer_box" ->
             SelectSeq(df, LAMBDA r : /\ str_contains(r.type_class, CUSTOMER_TRANSFER)
                                   /\ r.type_desc = OF_FUNDS_CHARGE)
      [] box = "cash_withdrawal_box" ->
             SelectSeq(df, LAMBDA r : str_contains(r.type_class, CASH_WITHDRAWAL))

\* The frames that are df with two of its rows exchanged.  Every reordering of
\* a frame is a sequence of such exchanges, and every frame an exchange gives
\* is itself a ledger of Init.
Exchanges(df) ==
    {[k \in 1..Len(df) |-> IF k = i THEN df[j] ELSE IF k = j THEN df[i] ELSE df[k]] :
        <<i, j>> \in {p \in (1..Len(df)) \X (1..Len(df)) : p[1] < p[2]}}

Descending(frame) == \A i \in 1..(Len(frame) - 1) : frame[i]["sum"] >= frame[i + 1]["sum"]
Ascending(frame) == \A i \in 1..(Len(frame) - 1) : frame[i]["sum"] <= frame[i + 1]["sum"]

---------------------------------------------------------------------------
(* Claims *)

\* C1: every processor called on an empty ledger returns, without raising, a
\* transaction count of 0 and an empty aggregate table.
C1_EmptyLedgerYieldsEmptyResult ==
    (Called /\ filtered_df = <<>>) =>
        /\ ret.out.raised = "no"
        /\ CountOf(ret.box, ret.out) = 0
        /\ Frame = <<>>

\* C2: a processor that reports charges, called on a ledger without a row
\* matching its charge marker, returns normally with a charge total of 0.
C2_NoChargeRowsZeroCharges ==
    (Called /\ ret.box \in ChargeBoxes /\ ChargeRows(ret.box, filtered_df) = <<>>) =>
        /\ ret.out.raised = "no"
        /\ ret.out.totalcharges = 0

\* C5 as stated: the amounts of the aggregate table add up to the total amount
\* reported.
C5_AmountConserved ==
    Returned => ColSum(Frame, "sum") = TotalOf(ret.box, ret.out)

\* C5: the total reported for merchant payments is the sum of the amounts of
\* the table; the total every other processor reports is that sum with its
\* fraction of a shilling cut off.
C5_AmountConservedToWholeShillings ==
    Returned =>
        LET total == TotalOf(ret.box, ret.out)
            sum == ColSum(Frame, "sum")
        IN IF ret.box = "merchant_box" THEN total = sum
           ELSE /\ total % 20 = 0
                /\ total <= sum
                /\ sum - total < 20

\* C5 witness: a table of two entities whose amounts add up to a shilling and a
\* half, reported as one shilling.
C5_Witness ==
    /\ Returned
    /\ Len(Frame) = 2
    /\ ColSum(Frame, "sum") = 30
    /\ TotalOf(ret.box, ret.out) = 20

\* C6: the counts of the aggregate table add up to the transaction count
\* reported, which is the number of principal rows of the category.
C6_CountConserved ==
    Returned =>
        /\ ColSum(Frame, "count") = CountOf(ret.box, ret.out)
        /\ CountOf(ret.box, ret.out) = Len(PrincipalRows(ret.box, filtered_df))

\* C6 witness: a processor has grouped three principal rows into two entities.
C6_Witness ==
    /\ Returned
    /\ Len(Frame) = 2
    /\ CountOf(ret.box, ret.out) = 3

\* The processors whose table is ranked by sort_values(ascending=False)
RankedBoxes == {"merchant_box", "paybill_box", "customer_transfer_box",
                "cash_withdrawal_box"}

\* C7: the table every processor returns is in descending order of its amount
\* column.
C7_EveryTableDescending ==
    Returned => Descending(Frame)

\* The order the code gives the tables: those of merchant payments, pay bill,
\* transfers and withdrawals are in descending order of amount; the airtime
\* table is in ascending order of amount; the table of received funds is in
\* ascending order of its grouping key (entity, type_desc), whatever the
\* amounts.
TableOrderAsCoded ==
    Returned =>
        /\ ret.box \in RankedBoxes => Descending(Frame)
        /\ ret.box = "airtime_box" => Ascending(Frame)
        /\ ret.box = "receive_money_box" =>
               \A i \in 1..(Len(Frame) - 1) :
                   TupleLess(<<Frame[i].entity, Frame[i].type_desc>>,
                            <<Frame[i + 1].entity, Frame[i + 1].type_desc>>)

\* A ranked table whose larger entity comes first although its name sorts
\* after the smaller one's.
RankedByAmountNotName ==
    /\ Returned
    /\ ret.box \in RankedBoxes
    /\ Len(Frame) >= 2
    /\ Frame[1]["sum"] > Frame[2]["sum"]
    /\ StrLess(Aggregates(ret.box, Frame)[2].name, Aggregates(ret.box, Frame)[1].name)

\* The table of received funds with a smaller amount above a larger one
ReceivedTableNotDescending ==
    /\ Returned
    /\ ret.box = "receive_money_box"
    /\ Len(Frame) = 2
    /\ Frame[1]["sum"] < Frame[2]["sum"]

\* C8: called on the same rows with any two of them exchanged, and so in any
\* other order, a processor gives the same outcome: the same entities with the
\* same counts and amounts in the same order, in the table and in the top-N
\* selection, ties included.
C8_RowOrderIndependent ==
    Called =>
        \A df \in Exchanges(filtered_df) :
            LET out == Call(ret.box, df, ret.nlargest)
            IN /\ out.raised = ret.out.raised
               /\ out.raised = "no" =>
                      /\ Aggregates(ret.box, FrameOf(ret.box, out)) =
                             Aggregates(ret.box, Frame)
                      /\ Aggregates(ret.box, FigOf(ret.box, out)) =
                             Aggregates(ret.box, FigOf(ret.box, ret.out))

\* C8 witness: a table of two entities of equal amount, the top-N selection
\* leaving one of them out, from a ledger whose rows are not all the same.
C8_Witness ==
    /\ Returned
    /\ Len(Frame) = 2
    /\ Frame[1]["sum"] = Frame[2]["sum"]
    /\ ret.nlargest = 1
    /\ filtered_df[1] # filtered_df[Len(filtered_df)]

\* The entity each principal row of a ranked category is grouped under, in
\* ledger order
GroupedUnder(box, df) ==
    LET rows == PrincipalRows(box, df)
    IN CASE box = "paybill_box" ->
                [i \in 1..Len(rows) |-> str_extract(rows[i].entity).entity2]
         [] box = "customer_transfer_box" -> Col(clean_entity_names(rows), "entity")
         [] OTHER -> Col(rows, "entity")

FirstSeen(names, name) ==
    CHOOSE i \in 1..Len(names) :
        names[i] = name /\ \A j \in 1..(i - 1) : names[j] # name

\* C9: of two entities of equal amount in a ranked table, the one whose first
\* row comes earlier in the ledger is ranked first.
C9_TiesInFirstSeenOrder ==
    (Returned /\ ret.box \in RankedBoxes) =>
        LET names == GroupedUnder(ret.box, filtered_df)
            table == Aggregates(ret.box, Frame)
        IN \A i, j \in 1..Len(table) :
               (i < j /\ table[i]["sum"] = table[j]["sum"]) =>
                   FirstSeen(names, table[i].name) < FirstSeen(names, table[j].name)

\* The name a counterparty is to be reported under: the name part, title-cased,
\* of a masked counterparty; the whole string, title-cased, of any other.
ReportedName(entity) ==
    IF str_contains(entity, <<"*">>) THEN title(partition_2(entity)) ELSE title(entity)

\* The rows of a category whose counterparty goes through name resolution
ResolvedRows(box, df) ==
    IF box = "receive_money_box"
    THEN SelectSeq(PrincipalRows(box, df), LAMBDA r : ~str_contains(r.type_desc, BUSINESS))
    ELSE PrincipalRows(box, df)

\* C10: in the transfer table and among the individual senders of the received
\* funds table, a counterparty without an asterisk is reported under its
\* title-cased name, together with every row that resolves to that name.
C10_UnmaskedNamesTitleCased ==
    (Returned /\ ret.box \in {"customer_transfer_box", "receive_money_box"}) =>
        LET rows == ResolvedRows(ret.box, filtered_df)
            table == Aggregates(ret.box, Frame)
        IN \A i \in 1..Len(rows) :
               ~str_contains(rows[i].entity, <<"*">>) =>
                   \E k \in 1..Len(table) :
                       /\ table[k].name = title(rows[i].entity)
                       /\ table[k].kind \in {<<>>, INDIVIDUAL}
                       /\ table[k].count =
                              Cardinality({j \in 1..Len(rows) :
                                  ReportedName(rows[j].entity) = title(rows[i].entity)})

---------------------------------------------------------------------------
(* Claims about the page script *)

InvokedBoxes == {invoked[i] : i \in 1..Len(invoked)}

\* The load of this run has raised
LoadFailed == script.pc \notin {"form", "gate"} /\ ~session_state.load_error.none

\* C3: when a processor raises in a run of the page script, the run is not
\* aborted and every other processor is still invoked.
C3_FailureConfined ==
    (Called /\ ret.out.raised # "no") =>
        /\ script.pc # "exception"
        /\ script.pc \in EndedPcs => Boxes \ {ret.box} \subseteq InvokedBoxes

\* C4: a run whose load fails records the error and, once past the error
\* message, has reset process_clicked and stopped, with no processor invoked; a processor is invoked only in a run that
\* found Process clicked and a file present and whose load succeeded.
C4_LoadGate ==
    /\ LoadFailed =>
           /\ script.pc # "error" =>
                  /\ ~session_state.process_clicked
                  /\ script.pc = "stopped"
           /\ invoked = <<>>
    /\ invoked # <<>> =>
           /\ ~df_cleaned.none
           /\ session_state.process_clicked
           /\ script.pc # "done" => ~session_state.pdf_path.none

\* No processor is invoked in a run whose load has failed, or that found
\* Process not clicked or no file.
ProcessorsOnlyAfterLoad ==
    /\ LoadFailed => invoked = <<>>
    /\ invoked # <<>> =>
           /\ ~df_cleaned.none
           /\ session_state.process_clicked
           /\ script.pc # "done" => ~session_state.pdf_path.none

\* The load has failed and its message is on the page, with process_clicked
\* not yet reset (line 109); the controls of a run before are still shown.
ErrorShownBeforeReset ==
    /\ script.pc = "error"
    /\ truthy(session_state.load_error)
    /\ session_state.process_clicked
    /\ {"date_filter", "upload_new"} \subseteq script.browser.shown

\* A run given up at the error message leaves process_clicked set, and the
\* next run loads the same file again.
LoadedAgainAfterError ==
    /\ script.pc = "error"
    /\ ~script.process
    /\ script.drawn = {"form"}

---------------------------------------------------------------------------
(* Claims C11-C19 *)

\* The amount column a category aggregates
AmountColumn(box) == IF box = "receive_money_box" THEN "paid_in" ELSE "withdrawn"

\* The masked rows among the rows that go through name resolution kept in the
\* table: each is counted, with its amount, under the title-cased text after
\* its first space (the empty name when it has no space).
MaskedRowsKept(box, df, table) ==
    LET rows == ResolvedRows(box, df)
    IN \A i \in 1..Len(rows) :
           str_contains(rows[i].entity, <<"*">>) =>
               LET name == title(partition_2(rows[i].entity))
                   same == SelectSeq(rows, LAMBDA r :
                               /\ str_contains(r.entity, <<"*">>)
                               /\ title(partition_2(r.entity)) = name)
               IN \E k \in 1..Len(table) :
                      /\ table[k].name = name
                      /\ table[k].kind \in {<<>>, INDIVIDUAL}
                      /\ table[k].count >= Len(same)
                      /\ table[k]["sum"] >= ColSum(same, AmountColumn(box))

\* C11: a processor that resolves names, called on a ledger with a masked
\* counterparty, does not raise, and every masked row is counted with its
\* amount under the title-cased remainder after its first space, the empty
\* name if it has no space.
C11_MaskedNamesResolvedAndKept ==
    (/\ Called
     /\ ret.box \in {"customer_transfer_box", "receive_money_box"}
     /\ \E i \in 1..Len(filtered_df) :
            str_contains(filtered_df[i].entity, <<"*">>)) =>
        /\ ret.out.raised = "no"
        /\ MaskedRowsKept(ret.box, filtered_df, Aggregates(ret.box, Frame))

\* Whenever a name-resolving processor returns, its masked rows are kept.
MaskedRowsKeptOnReturn ==
    (Returned /\ ret.box \in {"customer_transfer_box", "receive_money_box"}) =>
        MaskedRowsKept(ret.box, filtered_df, Aggregates(ret.box, Frame))

\* The section of the page that shows a category
SectionOf(box) ==
    CASE box = "merchant_box" -> "merchant"
      [] box = "paybill_box" -> "paybill"
      [] box = "customer_transfer_box" -> "transfer"
      [] box = "receive_money_box" -> "receive"
      [] box = "cash_withdrawal_box" -> "withdrawal"
      [] box = "airtime_box" -> "airtime"

\* C12: in a run of the page script that has gone through its six sections, the
\* section of a category is rendered if and only if the ledger handed to the
\* processors has a transaction of that category.
C12_SectionShownIffOwnCount ==
    script.pc \in {"reset", "done"} =>
        \A box \in Boxes :
            SectionOf(box) \in rendered <=> Len(PrincipalRows(box, filtered_df)) > 0

---------------------------------------------------------------------------
(* A caller that keeps one ledger and calls the processors on it, any number
   of times and in any order (m_top.py line 159: filtered_df is df_cleaned) *)

InitRepeated ==
    /\ filtered_df \in InputLedgers
    /\ df_cleaned = [none |-> FALSE, frame |-> filtered_df]
    /\ quicksort_ties \in TiePolicies
    /\ ret = NotCalled
    /\ statement = NoFile
    /\ session_state = NewSession
    /\ script = NoScript
    /\ invoked = <<>>
    /\ rendered = {}

Invoke(box) ==
    /\ ret' = [box |-> box, nlargest |-> N_LARGEST,
               out |-> Call(box, filtered_df, N_LARGEST)]
    /\ filtered_df' = ledger_after(box, filtered_df)
    /\ UNCHANGED <<quicksort_ties, statement, session_state, script, df_cleaned,
                   invoked, rendered>>

NextRepeated == \E box \in Boxes : Invoke(box)

SpecRepeated == InitRepeated /\ [][NextRepeated]_vars

\* The frame in which a processor assigns names, and none for the others
WrittenFrame(box) ==
    CASE box = "customer_transfer_box" -> "transferFrame"
      [] box = "receive_money_box" -> "receiveFrame"
      [] box = "paybill_box" -> "paybillFrame"
      [] OTHER -> "filtered_df"

\* C13: after any sequence of processor calls on a ledger, the ledger is as it
\* was loaded, row by row and field by field, every write of the last call
\* went into a block other than the ledger's, and the result of the last call
\* is the result of that processor called on the ledger as loaded.
C13_LedgerUnchanged ==
    /\ filtered_df = df_cleaned.frame
    /\ Called =>
          /\ ret.out = Call(ret.box, df_cleaned.frame, ret.nlargest)
          /\ LET heap == heap_after(ret.box, df_cleaned.frame)
             IN /\ heap.blocks[1] = df_cleaned.frame
                /\ WrittenFrame(ret.box) # "filtered_df" =>
                       heap.frames[WrittenFrame(ret.box)].block # 1

\* C13 witness: a processor has been called on a ledger and has written, into
\* its own frame, the name of a ledger row rewritten.
C13_Witness ==
    /\ Returned
    /\ ret.box \in {"customer_transfer_box", "receive_money_box"}
    /\ LET written == rows_of(heap_after(ret.box, df_cleaned.frame),
                              WrittenFrame(ret.box))
       IN \E k \in 1..Len(written) :
              \A i \in 1..Len(df_cleaned.frame) :
                  written[k].entity # df_cleaned.frame[i].entity

\* The names a processor groups by are the names written into its frame: the
\* rows of the frame in the heap are the rows the processor aggregates.
WrittenFrameIsAggregated ==
    \A df \in {filtered_df} :
        /\ rows_of(heap_after("customer_transfer_box", df), "transferFrame")
               = clean_entity_names(PrincipalRows("customer_transfer_box", df))
        /\ LET rows == rows_of(heap_after("paybill_box", df), "paybillFrame")
               selected == PrincipalRows("paybill_box", df)
           IN /\ Len(rows) = Len(selected)
              /\ \A k \in 1..Len(rows) :
                     /\ rows[k].entity2 = str_extract(selected[k].entity).entity2
                     /\ rows[k].entity = selected[k].entity
        /\ LET rows == rows_of(heap_after("receive_money_box", df), "receiveFrame")
           IN {rows[k].entity : k \in 1..Len(rows)}
                  = {r.entity : r \in
                        {clean_entity_names(ResolvedRows("receive_money_box", df))[k] :
                             k \in 1..Len(ResolvedRows("receive_money_box", df))}
                        \cup {r \in {PrincipalRows("receive_money_box", df)[k] :
                                        k \in 1..Len(PrincipalRows("receive_money_box", df))} :
                                 str_contains(r.type_desc, BUSINESS)}}

\* The total charged by each counterparty of the charge rows of a category
ChargeTotals(box, df) ==
    LET rows == ChargeRows(box, df)
    IN {ColSum(SelectSeq(rows, LAMBDA r : r.entity = e), "withdrawn") :
            e \in {rows[i].entity : i \in 1..Len(rows)}}

\* C14: the pay-bill table counts and sums the pay-bill rows whose description
\* does not contain "Charge" and nothing else, and the charge total reported is
\* the largest of the totals charged by the counterparties of the charge rows.
C14_PaybillChargeIsLargest ==
    (Returned /\ ret.box = "paybill_box") =>
        LET principal == PrincipalRows("paybill_box", filtered_df)
            totals == ChargeTotals("paybill_box", filtered_df)
        IN /\ ColSum(Frame, "count") = Len(principal)
           /\ ColSum(Frame, "sum") = ColSum(principal, "withdrawn")
           /\ \A x \in totals : ret.out.totalcharges >= x
           /\ totals # {} => ret.out.totalcharges \in totals

\* C15: the transfer table counts and sums the transfer rows whose description
\* is not "of Funds Charge" and nothing else, and the charge total reported is
\* the sum of the amounts of all the "of Funds Charge" rows of the category.
C15_TransferChargeIsSumOfChargeRows ==
    (Returned /\ ret.box = "customer_transfer_box") =>
        LET principal == PrincipalRows("customer_transfer_box", filtered_df)
            charges == ChargeRows("customer_transfer_box", filtered_df)
        IN /\ ColSum(Frame, "count") = Len(principal)
           /\ ColSum(Frame, "sum") = ColSum(principal, "withdrawn")
           /\ ret.out.totalcharges = ColSum(charges, "withdrawn")

\* The kind and the name a row of received funds is to be reported under
KindOf(r) == IF endswith(r.type_desc, FROM) THEN INDIVIDUAL ELSE BUSINESS

NameOf(r) ==
    IF str_contains(r.type_desc, BUSINESS) THEN r.entity ELSE ReportedName(r.entity)

\* The table of received funds has exactly one row for every pair (name, kind)
\* of the rows received, with the number of those rows and their amount.
ReceiveTableByNameAndKind ==
    LET rows == PrincipalRows("receive_money_box", filtered_df)
        table == Aggregates("receive_money_box", Frame)
        pairs == {<<NameOf(rows[i]), KindOf(rows[i])>> : i \in 1..Len(rows)}
    IN /\ Len(table) = Cardinality(pairs)
       /\ \A p \in pairs :
              LET group == SelectSeq(rows, LAMBDA r : <<NameOf(r), KindOf(r)>> = p)
              IN \E k \in 1..Len(table) :
                     /\ table[k].name = p[1]
                     /\ table[k].kind = p[2]
                     /\ table[k].count = Len(group)
                     /\ table[k]["sum"] = ColSum(group, "paid_in")

\* C16: the table of received funds groups the rows by name and kind: the kind
\* is "Individual" when the description ends with "from" and "Business"
\* otherwise; the name is the counterparty as it is when the description
\* contains "Business" and the resolved name otherwise; a name seen under both
\* kinds has two rows, each with its own count and amount.
C16_ReceivedGroupedByNameAndKind ==
    (Returned /\ ret.box = "receive_money_box") => ReceiveTableByNameAndKind

\* The same, for ledgers whose names without an asterisk are title-cased
\* already.
ReceivedGroupedWhenNamesTitled ==
    (/\ Returned
     /\ ret.box = "receive_money_box"
     /\ \A i \in 1..Len(filtered_df) :
            str_contains(filtered_df[i].entity, <<"*">>)
            \/ filtered_df[i].entity = title(filtered_df[i].entity)) =>
        ReceiveTableByNameAndKind

\* The sum of the amounts paid out in the rows of df at the positions in S
RECURSIVE AmountOver(_, _)
AmountOver(df, S) ==
    IF S = {} THEN 0
    ELSE LET i == CHOOSE k \in S : TRUE
         IN df[i].withdrawn + AmountOver(df, S \ {i})

\* The positions of the rows of df whose category contains a marker
RowsMarked(df, marker) == {i \in 1..Len(df) : str_contains(df[i].type_class, marker)}

\* What C17 says of the withdrawals: they are the rows whose category contains
\* "Customer Withdrawal", counted and added up in the table, their amount
\* reported in whole shillings.
WithdrawalsFromOwnMarker ==
    LET withdrawals == RowsMarked(filtered_df, CUSTOMER_WITHDRAWAL)
        amount == AmountOver(filtered_df, withdrawals)
        total == ret.out.totalwithdrawal
    IN /\ ret.out.totalWithdrawals = Cardinality(withdrawals)
       /\ ColSum(Frame, "count") = Cardinality(withdrawals)
       /\ ColSum(Frame, "sum") = amount
       /\ total % 20 = 0
       /\ total <= amount
       /\ amount - total < 20

\* C17 as stated: the withdrawal table and count come from the rows whose
\* category contains "Customer Withdrawal", and the charge total is the sum of
\* the amounts of all the rows of the ledger whose category contains "Cash
\* Withdrawal", whether or not they are withdrawals.
C17_WithdrawalRowSetsIndependent ==
    (Returned /\ ret.box = "cash_withdrawal_box") =>
        /\ WithdrawalsFromOwnMarker
        /\ ret.out.totalcharges =
               AmountOver(filtered_df, RowsMarked(filtered_df, CASH_WITHDRAWAL))

\* C17: the withdrawal table and count come from the rows whose category
\* contains "Customer Withdrawal"; the charge total is the sum of the amounts
\* of all the rows of the ledger whose category contains "Cash Withdrawal",
\* whether or not they are withdrawals, rounded to a tenth of a shilling.
C17_WithdrawalChargesToATenth ==
    (Returned /\ ret.box = "cash_withdrawal_box") =>
        LET charged == AmountOver(filtered_df, RowsMarked(filtered_df, CASH_WITHDRAWAL))
            reported == ret.out.totalcharges
        IN /\ WithdrawalsFromOwnMarker
           /\ reported % 2 = 0
           /\ reported - charged \in {-1, 0, 1}

\* C17 witness: a ledger of a charge row of 0.25 that is no withdrawal, a row
\* of 0.5 that is a withdrawal and carries the charge marker too, and a
\* merchant payment: one withdrawal counted, and charges of 0.75 reported as 0.8.
C17_Witness ==
    /\ Returned
    /\ ret.box = "cash_withdrawal_box"
    /\ Len(filtered_df) = 3
    /\ RowsMarked(filtered_df, MERCHANT_PAYMENT) # {}
    /\ RowsMarked(filtered_df, CASH_WITHDRAWAL) \ RowsMarked(filtered_df, CUSTOMER_WITHDRAWAL) # {}
    /\ RowsMarked(filtered_df, CASH_WITHDRAWAL) \cap RowsMarked(filtered_df, CUSTOMER_WITHDRAWAL) # {}
    /\ ret.out.totalWithdrawals = 1
    /\ ret.out.totalcharges = 16

\* A pay-bill counterparty split at its first " Acc. ": the business name
\* before it and the account reference after it; the whole string and an
\* empty account when there is none.
SplitAtAcc(s) ==
    LET sep == <<" ">> \o ACC \o <<" ">>
        at == {i \in 1..(Len(s) - Len(sep) + 1) : SubSeq(s, i, i + Len(sep) - 1) = sep}
    IN IF at = {} THEN [business |-> s, account |-> <<>>]
       ELSE LET i == CHOOSE k \in at : \A j \in at : k <= j
            IN [business |-> SubSeq(s, 1, i - 1),
                account |-> SubSeq(s, i + Len(sep), Len(s))]

\* C18: the pay-bill table has one row per business name, the name being the
\* counterparty up to " Acc. " or the whole counterparty without it, and the
\* accounts of a row are the account references of that business's rows,
\* empty where a row has none, joined by ", " in ledger order.
C18_PaybillAccountsJoined ==
    (Returned /\ ret.box = "paybill_box") =>
        LET rows == PrincipalRows("paybill_box", filtered_df)
            businesses == {SplitAtAcc(rows[i].entity).business : i \in 1..Len(rows)}
        IN /\ {Frame[k].entity2 : k \in 1..Len(Frame)} = businesses
           /\ Len(Frame) = Cardinality(businesses)
           /\ \A k \in 1..Len(Frame) :
                  LET own == SelectSeq(rows, LAMBDA r :
                                 SplitAtAcc(r.entity).business = Frame[k].entity2)
                  IN /\ Frame[k].count = Len(own)
                     /\ Frame[k].accounts =
                            join([i \in 1..Len(own) |-> SplitAtAcc(own[i].entity).account])

\* The same, for ledgers in which every pay-bill counterparty has an account.
PaybillAccountsJoinedWhenPresent ==
    (/\ Returned
     /\ ret.box = "paybill_box"
     /\ \A i \in 1..Len(filtered_df) :
            SplitAtAcc(filtered_df[i].entity).account # <<>>) =>
        C18_PaybillAccountsJoined


\* ---------------------------------------------------------------------------
\* The filters of the page
\* ---------------------------------------------------------------------------

\* The rows of df at the positions in keep, in the order of df
RowsAt(df, keep) ==
    LET at == SelectSeq([i \in 1..Len(df) |-> i], LAMBDA i : i \in keep)
    IN [k \in 1..Len(at) |-> df[at[k]]]

\* f holds rows of df and nothing else, in the order of df.
IsSubFrame(f, df) == \E keep \in SUBSET (1..Len(df)) : f = RowsAt(df, keep)

\* A user event begins a rerun, after a run has ended or while one is under way.
UserEvent == script'.pc = "form"

\* The two filters are never on together.
FiltersExclusive == ~(session_state.date_filter /\ session_state.month_filter)

\* What the sidebar hands to the sections holds rows of the loaded statement
\* only, and all of them when neither filter is on.
HandedLedgerWithinLoaded ==
    script.filtered =>
        /\ IsSubFrame(filtered_df, df_cleaned.frame)
        /\ (~session_state.date_filter /\ ~session_state.month_filter) =>
               filtered_df = df_cleaned.frame

\* Whatever the controls hold, a date range of one date leaves the statement
\* whole, and every selection leaves rows of the statement only.
SelectionWithinLoaded ==
    script.pc = "filter" =>
        \A date_range \in DateRanges(df_cleaned.frame),
           month \in SUBSET month_list(df_cleaned.frame) :
            LET handed == filter_frame(df_cleaned.frame, session_state, date_range, month)
            IN /\ IsSubFrame(handed, df_cleaned.frame)
               /\ (session_state.date_filter /\ Len(date_range) # 2) =>
                      handed = df_cleaned.frame

\* A toggle changes only while the browser shows it enabled, and the change
\* sets the other toggle's disabling to the changed toggle's new value.
ToggleDisablesOther ==
    UserEvent =>
        /\ session_state'.date_filter # session_state.date_filter =>
               /\ ~script.browser.disable.date
               /\ session_state'.disable.month = session_state'.date_filter
        /\ session_state'.month_filter # session_state.month_filter =>
               /\ ~script.browser.disable.month
               /\ session_state'.disable.date = session_state'.month_filter

\* C19: after any sequence of toggle changes the widgets permit, the date
\* range filter and the month filter are never both on; turning a filter on
\* disables the other toggle and turning it off enables it again; and the
\* ledger handed to the processors holds rows of the loaded ledger only, all
\* of them when neither filter is on or the date range is not a pair of dates.
C19_FiltersExclusiveLedgerWithinLoaded ==
    /\ [](FiltersExclusive /\ HandedLedgerWithinLoaded /\ SelectionWithinLoaded)
    /\ [][ToggleDisablesOther]_vars

\* The parts of C19 that hold: every toggle change is one the browser permits
\* and sets the other toggle's disabling, and the ledger handed on holds rows
\* of the loaded ledger only.
TogglesDisableLedgerWithinLoaded ==
    /\ [](HandedLedgerWithinLoaded /\ SelectionWithinLoaded)
    /\ [][ToggleDisablesOther]_vars

\* Both filters are on and both toggles are drawn disabled: the second toggle
\* was changed while the run begun by the first had not drawn it again.
BothFiltersOn ==
    /\ script.pc = "done"
    /\ session_state.date_filter
    /\ session_state.month_filter
    /\ script.browser.disable = [date |-> TRUE, month |-> TRUE]

\* With the session's filters read when a run has ended, a toggle is disabled
\* exactly while the other filter is on.
DisabledOnlyBesideFilterOn ==
    script.pc \in EndedPcs =>
        /\ session_state.disable.month = session_state.date_filter
        /\ session_state.disable.date = session_state.month_filter

=============================================================================
